---- MODULE Spec2Model ----
(***************************************************************************)
(* A model of do_ldc_ad2cp_in_file (src/src/ldc_ad2cp_in_file.cpp): the    *)
(* scan of a Nortek AD2CP byte stream into (index, length, id) records and *)
(* the brokenEnd flag.                                                     *)
(*                                                                         *)
(* A byte string (the file, the data buffer) is a sequence of runs         *)
(* [b |-> byte, n |-> count > 0], so that a payload of more than 65535     *)
(* bytes is a state of a few runs.  Positions and sizes are exact          *)
(* integers; every input of the model is shorter than 2^31 bytes, where    *)
(* the code's unsigned 32-bit arithmetic and its conversions are exact.    *)
(***************************************************************************)
EXTENDS Integers, Sequences, FiniteSets, TLC

\* ------------------------------------------------------------------------
\* Program constants
\* ------------------------------------------------------------------------

\* #define SYNC 0xA5
SYNC == 165

\* #define FAMILY 0x10
FAMILY == 16

\* unsigned short checksum = 0xB58C
CsSeed == 46476

\* the range of unsigned short (cs's size parameter and its running sum)
UShortMod == 65536

\* unsigned int dbuflen = 10000
InitDbuflen == 10000

\* unsigned int nchunk = 100000
InitNchunk == 100000

\* what getc returns at the end of the file
EOF == -1

\* ------------------------------------------------------------------------
\* Bounds of the model
\* ------------------------------------------------------------------------

\* the largest number of frames written to an input stream
MaxFrames == 2

\* the largest number of bytes put before the first frame
MaxPrefix == 2

\* the largest record-count limit 'to' tried
MaxTo == 3

\* a truncated stream keeps 1..MaxKeep bytes of its last frame
MaxKeep == 13

\* ------------------------------------------------------------------------
\* Byte strings as run sequences
\* ------------------------------------------------------------------------

Run(b, n) == [b |-> b, n |-> n]

\* the bytes bs[1..Len(bs)], one run each
Bytes(bs) == [i \in 1..Len(bs) |-> Run(bs[i], 1)]

\* the number of bytes of the first k runs of rs
RECURSIVE BLenTo(_, _)
BLenTo(rs, k) == IF k = 0 THEN 0 ELSE rs[k].n + BLenTo(rs, k - 1)

\* the number of bytes of a run sequence
BLen(rs) == BLenTo(rs, Len(rs))

\* In the operators below CHOOSE t \in {e(x) : x \in {a}} : TRUE is e(a), with
\* a computed once.

\* the byte at position i (from 0) of the runs k, k+1, ... of rs
RECURSIVE ByteFrom(_, _, _)
ByteFrom(rs, k, i) ==
  IF i < rs[k].n THEN rs[k].b
  ELSE CHOOSE t \in {ByteFrom(rs, j, m) : j \in {k + 1}, m \in {i - rs[k].n}} : TRUE

\* the byte at position i (from 0) of a run sequence, i < BLen(rs)
ByteAt(rs, i) == ByteFrom(rs, 1, i)

\* the bytes of a run sequence from run k on, one by one
RECURSIVE FlatFrom(_, _)
FlatFrom(rs, k) ==
  IF k > Len(rs) THEN <<>>
  ELSE [i \in 1..rs[k].n |-> rs[k].b] \o FlatFrom(rs, k + 1)

\* the bytes of a (short) run sequence, one by one
Flat(rs) == CHOOSE t \in {FlatFrom(r, 1) : r \in {rs}} : TRUE

\* the runs before run k of rs, and the first n bytes from run k on
RECURSIVE TakeFrom(_, _, _)
TakeFrom(rs, k, n) ==
  IF n <= 0 \/ k > Len(rs) THEN SubSeq(rs, 1, k - 1)
  ELSE IF rs[k].n <= n
    THEN CHOOSE t \in {TakeFrom(rs, j, m) : j \in {k + 1}, m \in {n - rs[k].n}} : TRUE
  ELSE Append(SubSeq(rs, 1, k - 1), Run(rs[k].b, n))

\* the first n bytes of rs (all of it when it is shorter)
Take(rs, n) == CHOOSE t \in {TakeFrom(r, 1, n) : r \in {rs}} : TRUE

\* the runs k, k+1, ... of rs without their first n bytes
RECURSIVE DropFrom(_, _, _)
DropFrom(rs, k, n) ==
  IF k > Len(rs) THEN <<>>
  ELSE IF n <= 0 THEN SubSeq(rs, k, Len(rs))
  ELSE IF rs[k].n <= n
    THEN CHOOSE t \in {DropFrom(rs, j, m) : j \in {k + 1}, m \in {n - rs[k].n}} : TRUE
  ELSE <<Run(rs[k].b, rs[k].n - n)>> \o SubSeq(rs, k + 1, Len(rs))

\* rs without its first n bytes
Drop(rs, n) == CHOOSE t \in {DropFrom(r, 1, n) : r \in {rs}} : TRUE

\* ------------------------------------------------------------------------
\* The frame format (header table, [1 sec 6.1]) and the input streams
\* ------------------------------------------------------------------------

\* a 16-bit value, least significant byte first
LE16(v) == <<v % 256, v \div 256>>

\* a 32-bit value below 2^31, least significant byte first
LE32(v) == <<v % 256, (v \div 256) % 256, (v \div 65536) % 256, v \div 16777216>>

\* the sum, modulo 2^16, of the 16-bit little-endian words lo..hi-1 of a
\* payload (a missing last byte counts as 0)
RECURSIVE WordSum(_, _, _, _)
WordSum(p, len, lo, hi) ==
  IF hi <= lo THEN 0
  ELSE IF hi = lo + 1
    THEN ByteAt(p, 2 * lo) + 256 * (IF 2 * lo + 1 < len THEN ByteAt(p, 2 * lo + 1) ELSE 0)
    ELSE LET mid == (lo + hi) \div 2
         IN (WordSum(p, len, lo, mid) + WordSum(p, len, mid, hi)) % UShortMod

\* the data checksum of the format: 0xB58C plus every 16-bit word of the
\* whole payload, modulo 2^16
RefCs(p) ==
  LET len == BLen(p)
  IN (CsSeed + WordSum(p, len, 0, (len + 1) \div 2)) % UShortMod

\* the payloads written to input streams
Payloads ==
  << <<>>,
     Bytes(<<1, 2>>),
     Bytes(<<9>>),
     Bytes(<<1, 2>>) \o <<Run(0, 65534)>> \o Bytes(<<5, 0>>) >>

\* the data checksum of each payload
PayloadCs == [i \in 1..Len(Payloads) |-> RefCs(Payloads[i])]

\* payload p with the byte at position i replaced by v
Corrupt(p, i, v) == Take(p, i) \o <<Run(v, 1)>> \o Drop(p, i + 1)

\* A frame description: the header-size byte hs, the id byte, the payload
\* pl (an index of Payloads), and how the frame departs from a well-formed
\* one: "ok" not at all; "badck" has a wrong data checksum in its header;
\* "corrupt" has payload byte pos changed after the checksum was computed;
\* "badhs" has 11 as its header-size byte; "nosync" has 0 as its first byte.
FrameDesc(hs, id, pl, var, pos) == [hs |-> hs, id |-> id, pl |-> pl, var |-> var, pos |-> pos]

OkFrames ==
  { FrameDesc(10, 21, 1, "ok", 0),
    FrameDesc(10, 22, 2, "ok", 0),
    FrameDesc(12, 160, 2, "ok", 0),
    FrameDesc(10, 99, 3, "ok", 0),
    FrameDesc(12, 26, 4, "ok", 0) }

\* one payload byte of an even-length well-formed frame changed: the first
\* byte or the last
CorruptFrames ==
  { FrameDesc(f.hs, f.id, f.pl, "corrupt", pos) :
      f \in {g \in OkFrames : g.hs = 12},
      pos \in {0, 1} }

Catalogue ==
  OkFrames \cup CorruptFrames
  \cup { FrameDesc(10, 23, 2, "badck", 0),
         FrameDesc(10, 22, 2, "badhs", 0),
         FrameDesc(10, 22, 2, "nosync", 0) }

\* the payload length a frame's header declares
FLen(f) == BLen(Payloads[f.pl])

\* the position of the changed byte of a corrupt frame: pos = 0 is the
\* first payload byte, pos = 1 the last
CorruptAt(f) == IF f.pos = 0 THEN 0 ELSE FLen(f) - 1

\* the payload bytes a frame carries
FPayload(f) ==
  LET p == Payloads[f.pl]
  IN IF f.var = "corrupt"
       THEN Corrupt(p, CorruptAt(f), (ByteAt(p, CorruptAt(f)) + 5) % 256)
       ELSE p

\* the data checksum a frame's header declares
FChecksum(f) ==
  IF f.var = "badck" THEN (PayloadCs[f.pl] + 1) % UShortMod
  ELSE PayloadCs[f.pl]

\* the header-size byte a frame's header carries
FHeaderSizeByte(f) == IF f.var = "badhs" THEN 11 ELSE f.hs

\* the bytes of a frame: sync, header size, id, family, data size (2 or 4
\* bytes), data checksum, header checksum (never checked: 0x1234), payload
FrameBytes(f) ==
  Bytes(<<IF f.var = "nosync" THEN 0 ELSE SYNC, FHeaderSizeByte(f), f.id, FAMILY>>
        \o (IF f.hs = 10 THEN LE16(FLen(f)) ELSE LE32(FLen(f)))
        \o LE16(FChecksum(f))
        \o LE16(4660))
  \o FPayload(f)

\* The scan reads nothing after the last frame of s: its header-size byte
\* is refused, or it is a later frame that does not start with SYNC (a first
\* frame without SYNC is skipped by the sync locator).
Stops(s) ==
  /\ s # <<>>
  /\ \/ s[Len(s)].var = "badhs"
     \/ s[Len(s)].var = "nosync" /\ Len(s) > 1

\* the sequences of at most n frames of the catalogue, with no frame after
\* one that stops the scan
RECURSIVE FrameSeqs(_)
FrameSeqs(n) ==
  IF n = 0 THEN {<<>>}
  ELSE LET shorter == FrameSeqs(n - 1)
       IN shorter \cup {Append(s, f) :
                          s \in {t \in shorter : Len(t) = n - 1 /\ ~Stops(t)},
                          f \in Catalogue}

\* the bytes of a sequence of frames, one after the other
RECURSIVE FramesBytes(_)
FramesBytes(fs) ==
  IF fs = <<>> THEN <<>> ELSE FrameBytes(Head(fs)) \o FramesBytes(Tail(fs))

\* the bytes put before the first frame: SYNC+1, SYNC+2, ... (none is SYNC)
RECURSIVE PrefixBytes(_)
PrefixBytes(m) ==
  IF m = 0 THEN <<>> ELSE PrefixBytes(m - 1) \o <<Run((SYNC + m) % 256, 1)>>

\* An input stream: prefix bytes, none of them SYNC, then the frames fs;
\* keep = 0 leaves the stream whole, keep > 0 ends it after the first keep
\* bytes of its last frame.
GenDesc(prefix, fs, keep) == [prefix |-> prefix, frames |-> fs, keep |-> keep]

\* the frames whose header and payload the scan reads through without a
\* change of course other than the flag
Readable(f) == f.var \in {"ok", "badck"}

\* The streams tried: every whole stream with no prefix; behind a prefix the
\* whole streams of readable frames; and the streams cut inside a last frame
\* that is well-formed up to the cut.
Inputs ==
  { GenDesc(0, fs, 0) : fs \in FrameSeqs(MaxFrames) }
  \cup { GenDesc(m, fs, 0) :
           m \in 1..MaxPrefix,
           fs \in {s \in FrameSeqs(MaxFrames) : \A i \in 1..Len(s) : Readable(s[i])} }
  \cup { GenDesc(0, fs, k) :
           fs \in {s \in FrameSeqs(MaxFrames) : s # <<>> /\ s[Len(s)].var = "ok"},
           k \in 1..MaxKeep }

\* the frames of a stream before its last
Front(fs) == SubSeq(fs, 1, Len(fs) - 1)

ValidInput(g) ==
  g.keep > 0 =>
    /\ g.frames # <<>>
    /\ g.keep < g.frames[Len(g.frames)].hs + FLen(g.frames[Len(g.frames)])

\* the bytes of an input stream
StreamBytes(g) ==
  PrefixBytes(g.prefix)
  \o (IF g.keep = 0 THEN FramesBytes(g.frames)
      ELSE FramesBytes(Front(g.frames))
           \o Take(FrameBytes(g.frames[Len(g.frames)]), g.keep))

\* the arguments <<from, to, by>> of the calls tried
Configs ==
  { <<1, t, 1>> : t \in (-1)..MaxTo }
  \cup { <<-1, 1, 1>>, <<1, 1, -1>>, <<2, 1, 2>>, <<0, 1, 0>> }

\* ------------------------------------------------------------------------
\* State
\* ------------------------------------------------------------------------

VARIABLES
  gen,         \* how the input stream was built (never read by the scan)
  file,        \* the bytes of the file
  canOpen,     \* whether fopen succeeds
  from, to, by,\* the arguments from[0], to[0], by[0]
  pc,          \* where the function is: "enter", "seek", "loop", "header",
               \* "payload", "check", "return"; "done" after return(List),
               \* "error" after ::Rf_error
  err,         \* the message of the ::Rf_error that ended the call
  fp,          \* the FILE: "none", "open" or "closed"
  pos,         \* the file position of fp
  broken_end, to_value, chunk, cindex,
  header,      \* struct header
  dbuflen, dbuf, nchunk,
  index_buf, length_buf, id_buf,  \* the entries written so far
  bytes_read, dbufcs,
  result,      \* the List returned: <<>> until the call returns it
  wide         \* the decoding of one 4-byte data size at its full width

vars ==
  <<gen, file, canOpen, from, to, by, pc, err, fp, pos, broken_end, to_value,
    chunk, cindex, header, dbuflen, dbuf, nchunk, index_buf, length_buf,
    id_buf, bytes_read, dbufcs, result, wide>>

\* no 4-byte data size is being decoded at full width
NoWide == [pc |-> "none"]

NoHeader ==
  [sync |-> 0, header_size |-> 0, id |-> 0, family |-> 0, data_size |-> 0,
   data_checksum |-> 0, header_checksum |-> 0]

Init ==
  /\ \E g \in Inputs, c \in Configs, o \in BOOLEAN :
       /\ ValidInput(g)
       /\ ~o => (g = GenDesc(0, <<>>, 0) /\ c = <<1, 0, 1>>)
       /\ gen = g
       /\ file = StreamBytes(g)
       /\ canOpen = o
       /\ from = c[1]
       /\ to = c[2]
       /\ by = c[3]
  /\ pc = "enter"
  /\ err = ""
  /\ fp = "none"
  /\ pos = 0
  /\ broken_end = 0
  /\ to_value = 0
  /\ chunk = 0
  /\ cindex = 0
  /\ header = NoHeader
  /\ dbuflen = 0
  /\ dbuf = <<>>
  /\ nchunk = 0
  /\ index_buf = <<>>
  /\ length_buf = <<>>
  /\ id_buf = <<>>
  /\ wide = NoWide
  /\ bytes_read = 0
  /\ dbufcs = 0
  /\ result = <<>>

\* ------------------------------------------------------------------------
\* The pieces of the function
\* ------------------------------------------------------------------------

\* a check of the arguments that accepts no stride but 1
ArgsError_ByOne(f, t, b) ==
  IF f < 0 THEN "'from' must be positive"
  ELSE IF t < 0 THEN "'to' must be positive"
  ELSE IF b # 1 THEN "'by' must be positive"
  ELSE ""

\* the checks of the arguments: the message of the first that fails, or ""
ArgsError(f, t, b) ==
  IF f < 0 THEN "'from' must be positive"
  ELSE IF t < 0 THEN "'to' must be positive"
  ELSE IF b < 0 THEN "'by' must be positive"
  ELSE ""

\* a getc whose end of file is taken for a SYNC
Getc_Mut(f, p) ==
  LET rest == Drop(f, p)
  IN IF rest = <<>> THEN SYNC ELSE rest[1].b

\* c = getc(fp)
Getc(f, p) ==
  LET rest == Drop(f, p)
  IN IF rest = <<>> THEN EOF ELSE rest[1].b

\* a test that takes a zero byte for SYNC as well
IsSync_Mut(c) == c = SYNC \/ c = 0

\* if (SYNC == c)
IsSync(c) == c = SYNC

\* a scan that forgets cindex++
SkipByte_Mut(ci) == ci

\* cindex++ for a byte that is not SYNC
SkipByte(ci) == ci + 1

\* a loop that runs once too often
LoopCond_Mut(ch, tv) == ch <= tv

\* while (chunk < to_value)
LoopCond(ch, tv) == ch < tv

\* if (chunk > nchunk - 1) nchunk = (unsigned int) floor(chunk * 1.4)
GrownNchunk(ch, nc) == IF ch > nc - 1 THEN (ch * 14) \div 10 ELSE nc

\* bytes2[0] + 256 * bytes2[1]
U16(b0, b1) == b0 + 256 * b1

\* bytes4[0] + 256 * (bytes4[1] + 256 * (bytes4[2] + 256 * bytes4[3])),
\* for bytes4[3] < 128 (every input of the model)
U32(b0, b1, b2, b3) == b0 + 256 * (b1 + 256 * (b2 + 256 * b3))

\* a failed read that is passed over: the scan goes on with an empty header
HeaderFail_Mut(msg, consumed) == [ok |-> TRUE, err |-> "", consumed |-> consumed, header |-> NoHeader]

HeaderFail(msg, consumed) == [ok |-> FALSE, err |-> msg, consumed |-> consumed, header |-> NoHeader]

\* The reads of one header from the bytes rest that follow the read
\* position: either the ::Rf_error that ends the call and the bytes consumed
\* before it, or the header and its size.
HeaderAt(rest) ==
  LET avail == Len(rest)
      b(i) == rest[i + 1]
      Rest(k, size) ==
        IF avail < k + 2 THEN HeaderFail("cannot read header.data_checksum", avail)
        ELSE IF avail < k + 4 THEN HeaderFail("cannot read header.header_checksum", avail)
        ELSE [ok |-> TRUE, err |-> "", consumed |-> k + 4,
              header |-> [sync |-> b(0), header_size |-> b(1), id |-> b(2),
                          family |-> b(3), data_size |-> size,
                          data_checksum |-> U16(b(k), b(k + 1)),
                          header_checksum |-> U16(b(k + 2), b(k + 3))]]
  IN IF avail < 1 THEN HeaderFail("cannot read header.sync", 0)
     ELSE IF ~IsSync(b(0)) THEN HeaderFail("expected header.sync to be 0xa5", 1)
     ELSE IF avail < 2 THEN HeaderFail("cannot read header_size", 1)
     ELSE IF b(1) < 2 THEN HeaderFail("impossible header.header_size", 2)
     ELSE IF avail < 3 THEN HeaderFail("cannot read header.id", 2)
     ELSE IF avail < 4 THEN HeaderFail("cannot read header.family", 3)
     ELSE IF b(1) = 10
       THEN IF avail < 6 THEN HeaderFail("cannot read bytes2", avail)
            ELSE Rest(6, U16(b(4), b(5)))
     ELSE IF b(1) = 12
       THEN IF avail < 8 THEN HeaderFail("cannot read bytes4", avail)
            ELSE Rest(8, U32(b(4), b(5), b(6), b(7)))
     ELSE HeaderFail("header_size must be 10 or 12", 4)

\* The reads of one header at position p.  What the reads can reach is
\* computed once: a header is 12 bytes at most.
ReadHeader(f, p) ==
  CHOOSE r \in {HeaderAt(rest) : rest \in {Flat(Take(Drop(f, p), 12))}} : TRUE

\* an offset that takes every header to be HEADER_SIZE = 10 bytes long
PayloadOffset_Mut(ci, header_size) == ci + 10

\* cindex = cindex + header.header_size; index_buf[chunk] = cindex
PayloadOffset(ci, header_size) == ci + header_size

\* buf[i] = v, for i at most the number of entries written so far
Store(buf, i, v) == IF i < Len(buf) THEN [buf EXCEPT ![i + 1] = v] ELSE Append(buf, v)

\* a buffer that is never made larger
GrownDbuflen_Mut(data_size, len) == len

\* if (header.data_size > dbuflen) dbuflen = header.data_size
GrownDbuflen(data_size, len) == IF data_size > len THEN data_size ELSE len

\* Realloc(dbuf, dbuflen): the old bytes, then bytes of no known value
\* (written 0 here; no read reaches them before a write, but for cs's read
\* one past an odd size, where they are drawn afresh)
Realloc(buf, oldlen, newlen) ==
  IF newlen > oldlen THEN buf \o <<Run(0, newlen - oldlen)>> ELSE buf

\* the bytes fread(dbuf, 1, n, fp) gets at position p
Fread(f, p, n) == Take(Drop(f, p), n)

\* a test that lets a short read through
ShortRead_Mut(br, data_size) == br > data_size

\* if (bytes_read != header.data_size)
ShortRead(br, data_size) == br # data_size

\* the size cs receives: header.data_size converted to unsigned short
CsSize(data_size) == data_size % UShortMod

\* data[i] in cs: a byte of the buffer, or, past its end, whatever is there
DataAt(data, cap, i, oob) == IF i < cap THEN ByteAt(data, i) ELSE oob

\* checksum += (unsigned short)data[i] + 256*(unsigned short)data[i+1]
CsAdd(checksum, lo, hi) == (checksum + lo + 256 * hi) % UShortMod

\* for (int i = 0; i < size; i += 2)
RECURSIVE CsLoop(_, _, _, _, _, _)
CsLoop(data, cap, size, i, checksum, oob) ==
  IF i < size
    THEN CsLoop(data, cap, size, i + 2,
                CsAdd(checksum, DataAt(data, cap, i, oob), DataAt(data, cap, i + 1, oob)),
                oob)
    ELSE checksum

\* unsigned short cs(unsigned char *data, unsigned short size), on a buffer
\* of cap bytes; oob is the byte a read past the buffer finds
cs(data, cap, size, oob) == CsLoop(data, cap, size, 0, CsSeed, oob)

\* the values a read past the end of dbuf can find: cs reads data[size]
\* when size is odd, which is past the buffer when size = dbuflen
OobValues(size, cap) == IF size % 2 = 1 /\ size >= cap THEN 0..255 ELSE {0}

\* if (dbufcs != header.data_checksum)
ChecksumMismatch(computed, declared) == computed # declared

\* a flag that follows the last frame only
NextBrokenEnd_Mut(broken, computed, declared) ==
  IF ChecksumMismatch(computed, declared) THEN 1 ELSE 0

\* if (dbufcs != header.data_checksum) broken_end = 1
NextBrokenEnd(broken, computed, declared) ==
  IF ChecksumMismatch(computed, declared) THEN 1 ELSE broken

\* a frame that is not counted
NextChunk_Mut(ch) == ch

\* chunk++
NextChunk(ch) == ch + 1

\* IntegerVector index(chunk), length(chunk), id(chunk), and brokenEnd
MakeResult(ch, ib, lb, idb, broken) ==
  [index |-> SubSeq(ib, 1, ch), length |-> SubSeq(lb, 1, ch),
   id |-> SubSeq(idb, 1, ch), brokenEnd |-> broken]

\* ------------------------------------------------------------------------
\* The steps of do_ldc_ad2cp_in_file
\* ------------------------------------------------------------------------

\* fopen, the checks of from, to and by, and chunk = cindex = 0.  An
\* ::Rf_error leaves the function at once: nothing is returned.
Enter ==
  /\ pc = "enter"
  /\ IF ~canOpen
       THEN /\ pc' = "error"
            /\ err' = "cannot open file"
            /\ UNCHANGED <<fp, to_value>>
       ELSE /\ fp' = "open"
            /\ IF ArgsError(from, to, by) # ""
                 THEN /\ pc' = "error"
                      /\ err' = ArgsError(from, to, by)
                      /\ UNCHANGED to_value
                 ELSE /\ pc' = "seek"
                      /\ to_value' = to
                      /\ UNCHANGED err
  /\ UNCHANGED <<wide, gen, file, canOpen, from, to, by, pos, broken_end, chunk,
                 cindex, header, dbuflen, dbuf, nchunk, index_buf, length_buf,
                 id_buf, bytes_read, dbufcs, result>>

\* One turn of the while (1) that looks for the first SYNC; when it is
\* found the byte is put back and the buffers are allocated.
SeekSync ==
  /\ pc = "seek"
  /\ \E c \in {Getc(file, pos)} :
        IF c = EOF
          THEN /\ pc' = "error"
               /\ err' = "this file does not contain a single 0x"
               /\ UNCHANGED <<pos, cindex, dbuflen, dbuf, nchunk>>
          ELSE IF IsSync(c)
            THEN /\ pc' = "loop"
                 /\ pos' = pos + 1 - 1
                 /\ dbuflen' = InitDbuflen
                 /\ dbuf' = <<Run(0, InitDbuflen)>>
                 /\ nchunk' = InitNchunk
                 /\ UNCHANGED <<err, cindex>>
            ELSE /\ pos' = pos + 1
                 /\ cindex' = SkipByte(cindex)
                 /\ UNCHANGED <<pc, err, dbuflen, dbuf, nchunk>>
  /\ UNCHANGED <<wide, gen, file, canOpen, from, to, by, fp, broken_end, to_value,
                 chunk, header, index_buf, length_buf, id_buf, bytes_read,
                 dbufcs, result>>

\* The test of while (chunk < to_value) and the growth of the three index
\* buffers.
LoopTest ==
  /\ pc = "loop"
  /\ IF LoopCond(chunk, to_value)
       THEN /\ pc' = "header"
            /\ nchunk' = GrownNchunk(chunk, nchunk)
       ELSE /\ pc' = "return"
            /\ UNCHANGED nchunk
  /\ UNCHANGED <<wide, gen, file, canOpen, from, to, by, err, fp, pos, broken_end,
                 to_value, chunk, cindex, header, dbuflen, dbuf, index_buf,
                 length_buf, id_buf, bytes_read, dbufcs, result>>

\* The reads of the header, the three stores at [chunk] and the growth of
\* dbuf.
DecodeHeader ==
  /\ pc = "header"
  /\ \E r \in {ReadHeader(file, pos)} :
        /\ pos' = pos + r.consumed
        /\ IF ~r.ok
             THEN /\ pc' = "error"
                  /\ err' = r.err
                  /\ UNCHANGED <<header, cindex, index_buf, length_buf, id_buf,
                                 dbuflen, dbuf>>
             ELSE /\ pc' = "payload"
                  /\ header' = r.header
                  /\ cindex' = PayloadOffset(cindex, r.header.header_size)
                  /\ index_buf' = Store(index_buf, chunk, cindex')
                  /\ length_buf' = Store(length_buf, chunk, r.header.data_size)
                  /\ id_buf' = Store(id_buf, chunk, r.header.id)
                  /\ dbuflen' = GrownDbuflen(r.header.data_size, dbuflen)
                  /\ dbuf' = Realloc(dbuf, dbuflen, dbuflen')
                  /\ UNCHANGED err
  /\ UNCHANGED <<wide, gen, file, canOpen, from, to, by, fp, broken_end, to_value,
                 chunk, nchunk, bytes_read, dbufcs, result>>

\* bytes_read = fread(dbuf, 1, header.data_size, fp), and the break when
\* the file ran out.
ReadPayload ==
  /\ pc = "payload"
  /\ \E got \in {Fread(file, pos, header.data_size)} :
      \E n \in {BLen(got)} :
        /\ bytes_read' = n
        /\ pos' = pos + n
        /\ dbuf' = got \o Drop(dbuf, n)
  /\ pc' = IF ShortRead(bytes_read', header.data_size) THEN "return" ELSE "check"
  /\ UNCHANGED <<wide, gen, file, canOpen, from, to, by, err, fp, broken_end,
                 to_value, chunk, cindex, header, dbuflen, nchunk, index_buf,
                 length_buf, id_buf, dbufcs, result>>

\* dbufcs = cs(dbuf, header.data_size), the comparison with the header's
\* data checksum, cindex += header.data_size and chunk++.
CheckData ==
  /\ pc = "check"
  /\ \E oob \in OobValues(CsSize(header.data_size), dbuflen) :
       dbufcs' = cs(dbuf, dbuflen, CsSize(header.data_size), oob)
  /\ broken_end' = NextBrokenEnd(broken_end, dbufcs', header.data_checksum)
  /\ cindex' = cindex + header.data_size
  /\ chunk' = NextChunk(chunk)
  /\ pc' = "loop"
  /\ UNCHANGED <<wide, gen, file, canOpen, from, to, by, err, fp, pos, to_value,
                 header, dbuflen, dbuf, nchunk, index_buf, length_buf, id_buf,
                 bytes_read, result>>

\* The copy of the first chunk entries into index, length and id, and the
\* return of the List.  fp is not closed.
Return ==
  /\ pc = "return"
  /\ result' = <<MakeResult(chunk, index_buf, length_buf, id_buf, broken_end)>>
  /\ pc' = "done"
  /\ UNCHANGED <<wide, gen, file, canOpen, from, to, by, err, fp, pos, broken_end,
                 to_value, chunk, cindex, header, dbuflen, dbuf, nchunk,
                 index_buf, length_buf, id_buf, bytes_read, dbufcs>>

Next ==
  \/ Enter
  \/ SeekSync
  \/ LoopTest
  \/ DecodeHeader
  \/ ReadPayload
  \/ CheckData
  \/ Return

Spec == Init /\ [][Next]_vars

\* The call runs on its own thread of control to its return or to an
\* ::Rf_error: a step that can be taken is taken.
LiveSpec == Spec /\ WF_vars(Next)

\* ------------------------------------------------------------------------
\* The 4-byte data size at its full width
\*
\* A data size of 2^31 or more is past the integers of the scan above.  Here
\* one 12-byte header's data size goes through the same statements with
\* every number held as 16-bit limbs, least significant first: an int is
\* two limbs (its bit pattern), an unsigned long two or four.
\* ------------------------------------------------------------------------

\* the byte values tried in each of bytes4[0..3]
ByteSamples == {0, 1, 127, 128, 255}

\* the widths, in bits, of unsigned long in the builds of the package
LongBits == {32, 64}

\* an unsigned char promoted to int
I32(b) == <<b, 0>>

\* x + y in int, the bit pattern of the sum
I32Add(x, y) ==
  LET lo == x[1] + y[1]
  IN <<lo % UShortMod, (x[2] + y[2] + lo \div UShortMod) % UShortMod>>

\* 256 * x in int, the bit pattern of the product
I32Mul256(x) ==
  <<(x[1] * 256) % UShortMod, (x[2] * 256 + x[1] \div 256) % UShortMod>>

\* 256 * x, for x >= 0, is past INT_MAX: the multiplication is undefined,
\* and the builds at hand leave the bit pattern I32Mul256 gives
Mul256Overflows(x) == x[2] * 256 + x[1] \div 256 >= 32768

\* bytes4[0] + 256 * (bytes4[1] + 256 * (bytes4[2] + 256 * bytes4[3])) in int
DecodeInt(b) ==
  I32Add(I32(b[1]),
         I32Mul256(I32Add(I32(b[2]),
                          I32Mul256(I32Add(I32(b[3]), I32Mul256(I32(b[4])))))))

\* whether that expression overflows int: only its last multiplication can
DecodeOverflows(b) ==
  Mul256Overflows(I32Add(I32(b[2]), I32Mul256(I32Add(I32(b[3]), I32Mul256(I32(b[4]))))))

\* header.data_size = (int): the conversion to unsigned long of bits bits
ToULong(x, bits) ==
  IF bits = 64 /\ x[2] >= 32768 THEN <<x[1], x[2], 65535, 65535>>
  ELSE <<x[1], x[2], 0, 0>>

\* length_buf[chunk] = header.data_size: the conversion to unsigned int
ToUInt(u) == <<u[1], u[2]>>

\* length[i] = length_buf[i]: the conversion of an unsigned int to the int
\* of an IntegerVector
ToRInt(u) ==
  IF u[2] >= 32768 THEN (u[2] - UShortMod) * UShortMod + u[1]
  ELSE u[2] * UShortMod + u[1]

\* x < y, for two unsigned long
ULess(x, y) ==
  \E k \in 1..4 : x[k] < y[k] /\ \A j \in (k + 1)..4 : x[j] = y[j]

\* what fread(dbuf, 1, n, fp) returns with avail bytes left in the file
FreadCount(n, avail) == IF ULess(avail, n) THEN avail ELSE n

\* the value of the 4-byte little-endian field, as an unsigned long
Exact(b) == <<b[1] + 256 * b[2], b[3] + 256 * b[4], 0, 0>>

\* the variables of the scan
scan ==
  <<gen, file, canOpen, from, to, by, pc, err, fp, pos, broken_end, to_value,
    chunk, cindex, header, dbuflen, dbuf, nchunk, index_buf, length_buf,
    id_buf, bytes_read, dbufcs, result>>

\* A 12-byte header whose data-size bytes are bytes4, in a stream that
\* holds the whole payload the field declares; no scan is under way.
InitWide ==
  /\ \E b \in ByteSamples \X ByteSamples \X ByteSamples \X ByteSamples, w \in LongBits :
       wide = [pc |-> "decode", bytes4 |-> b, long |-> w, avail |-> Exact(b),
               data_size |-> <<0, 0, 0, 0>>, length_buf |-> <<0, 0>>,
               bytes_read |-> <<0, 0, 0, 0>>, length |-> 0, overflowed |-> FALSE]
  /\ gen = GenDesc(0, <<>>, 0)
  /\ file = <<>>
  /\ canOpen = TRUE
  /\ from = 1
  /\ to = 1
  /\ by = 1
  /\ pc = "wide"
  /\ err = ""
  /\ fp = "open"
  /\ pos = 0
  /\ broken_end = 0
  /\ to_value = 1
  /\ chunk = 0
  /\ cindex = 0
  /\ header = NoHeader
  /\ dbuflen = InitDbuflen
  /\ dbuf = <<Run(0, InitDbuflen)>>
  /\ nchunk = InitNchunk
  /\ index_buf = <<>>
  /\ length_buf = <<>>
  /\ id_buf = <<>>
  /\ bytes_read = 0
  /\ dbufcs = 0
  /\ result = <<>>

\* header.data_size = bytes4[0] + 256 * (...), and length_buf[chunk] =
\* header.data_size
WideDecode ==
  /\ wide.pc = "decode"
  /\ LET ds == ToULong(DecodeInt(wide.bytes4), wide.long)
     IN wide' = [wide EXCEPT !.pc = "read", !.data_size = ds, !.length_buf = ToUInt(ds),
                             !.overflowed = DecodeOverflows(wide.bytes4)]
  /\ UNCHANGED scan

\* bytes_read = fread(dbuf, 1, header.data_size, fp), the break on a short
\* read, and chunk++ otherwise
WideRead ==
  /\ wide.pc = "read"
  /\ LET n == FreadCount(wide.data_size, wide.avail)
     IN wide' = [wide EXCEPT !.bytes_read = n,
                             !.pc = IF n # wide.data_size THEN "break" ELSE "copy"]
  /\ UNCHANGED scan

\* length[i] = length_buf[i], for the record of the frame
WideCopy ==
  /\ wide.pc = "copy"
  /\ wide' = [wide EXCEPT !.pc = "end", !.length = ToRInt(wide.length_buf)]
  /\ UNCHANGED scan

NextWide ==
  \/ WideDecode
  \/ WideRead
  \/ WideCopy

SpecWide == InitWide /\ [][NextWide]_vars

\* ------------------------------------------------------------------------
\* What the claims speak of
\* ------------------------------------------------------------------------

\* the call got past fopen and the checks of its arguments
Scanning == canOpen /\ ArgsError(from, to, by) = ""

\* the call has ended, by a return or by an ::Rf_error
Ended == pc \in {"done", "error"}

\* the frames at the head of fs that have no sync byte: the scan for the
\* first SYNC passes over them as it passes over the prefix
RECURSIVE LeadNoSync(_)
LeadNoSync(fs) ==
  IF fs = <<>> \/ Head(fs).var # "nosync" THEN 0 ELSE 1 + LeadNoSync(Tail(fs))

\* the bytes of the frames fs: every header and every payload
RECURSIVE FramesLen(_)
FramesLen(fs) ==
  IF fs = <<>> THEN 0 ELSE Head(fs).hs + FLen(Head(fs)) + FramesLen(Tail(fs))

\* the frames of the stream from its first sync byte on
Frames == SubSeq(gen.frames, LeadNoSync(gen.frames) + 1, Len(gen.frames))

\* the number of bytes before the first sync byte
Skipped == gen.prefix + FramesLen(SubSeq(gen.frames, 1, LeadNoSync(gen.frames)))

\* frame i (from the first sync byte) is all in the stream, with a sync
\* byte and a header size of 10 or 12
Complete(i) ==
  /\ Frames[i].var \in {"ok", "badck", "corrupt"}
  /\ gen.keep > 0 => i < Len(Frames)

\* the number of complete frames the stream starts with
RECURSIVE CompleteFrom(_)
CompleteFrom(i) ==
  IF i > Len(Frames) \/ ~Complete(i) THEN 0 ELSE 1 + CompleteFrom(i + 1)

NComplete == CompleteFrom(1)

\* a well-formed frame: its header declares the checksum of its payload,
\* of even length
WellFormed(f) == f.var = "ok" /\ FLen(f) % 2 = 0

\* the stream is whole and all of its frames are complete
WholeStream == gen.keep = 0 /\ Frames # <<>> /\ NComplete = Len(Frames)

\* the byte position right after the header of frame i
OffsetOf(i) == Skipped + FramesLen(SubSeq(Frames, 1, i - 1)) + Frames[i].hs

\* the record of frame i
DescOf(i) == [index |-> OffsetOf(i), length |-> FLen(Frames[i]), id |-> Frames[i].id]

\* record i of the List returned
Rec(i) == [index |-> result[1].index[i], length |-> result[1].length[i], id |-> result[1].id[i]]

\* the number of records of the List returned
NRec == Len(result[1].index)

\* the List returned holds the records of the first n frames, in order
ReturnsFirst(n) ==
  /\ pc = "done"
  /\ NRec = n
  /\ Len(result[1].length) = n
  /\ Len(result[1].id) = n
  /\ \A i \in 1..n : Rec(i) = DescOf(i)

\* ------------------------------------------------------------------------
\* Claims
\* ------------------------------------------------------------------------

\* C1: with to = 0 the scan is unlimited: a scan with to = 0 of a whole
\* stream of K complete well-formed frames returns all K records and
\* consumes the whole stream.
C1_ToZeroReturnsAll ==
  (Scanning /\ Ended /\ to = 0 /\ WholeStream
     /\ \A i \in 1..Len(Frames) : WellFormed(Frames[i]))
  => (ReturnsFirst(Len(Frames)) /\ pos = BLen(file))

\* C2: with a limit N = to > 0 the scan never returns more than N records,
\* never starts on the header of frame N+1, and, when the stream starts
\* with at least N complete frames, returns exactly the records of the
\* first N frames in stream order, having read up to the end of frame N.
C2_LimitRespected ==
  (Scanning /\ to > 0) =>
    /\ pc = "header" => chunk < to
    /\ pc = "done" => NRec <= to
    /\ (Ended /\ NComplete >= to) =>
         /\ ReturnsFirst(to)
         /\ pos = OffsetOf(to) + FLen(Frames[to])

\* C2 witness: a stream of two complete frames scanned with to = 1 returns
\* one record.
C2_Witness ==
  /\ Scanning /\ pc = "done" /\ to = 1
  /\ NComplete = 2
  /\ NRec = 1

\* C3: when the stream is exhausted exactly at a frame boundary before the
\* limit is reached, the scan stops gracefully and returns every record
\* emitted so far.
C3_EndOfStreamStops ==
  (Scanning /\ Ended /\ WholeStream /\ to > Len(Frames))
  => ReturnsFirst(Len(Frames))

\* the stream ended while a payload was being read: the last fread got
\* fewer bytes than the header declared
PayloadCut == bytes_read # header.data_size

\* C4: when the stream ends while a payload is being read the scan ends
\* with no fatal error, and the List returned holds exactly the records of
\* the frames before the one in progress.
C4_TruncatedPayloadKeepsEarlier ==
  (Ended /\ PayloadCut) =>
    /\ pc = "done"
    /\ gen.keep > 0
    /\ NComplete = Len(Frames) - 1
    /\ ReturnsFirst(NComplete)

\* C4 witness: a scan that returned after a payload was cut short in the
\* second frame, with one record.
C4_Witness ==
  /\ pc = "done" /\ PayloadCut
  /\ Len(Frames) = 2
  /\ NRec = 1

\* C5: when the stream ends while a payload is being read, brokenEnd is
\* true in the List returned.
C5_TruncationSetsBrokenEnd ==
  (pc = "done" /\ PayloadCut) => result[1].brokenEnd = 1

\* C6: a payload whose computed checksum differs from the header's data
\* checksum does not stop the scan: broken_end becomes 1 and stays 1, the
\* frame is appended with its offset, length and id, the scan goes on to
\* the next frame, and the List returned carries the flag and the frame.
C6_MismatchContinues ==
  /\ [][(pc = "check" /\ dbufcs' # header.data_checksum) =>
          /\ broken_end' = 1
          /\ pc' = "loop"
          /\ chunk' = chunk + 1
          /\ index_buf'[chunk'] = cindex
          /\ length_buf'[chunk'] = header.data_size
          /\ id_buf'[chunk'] = header.id]_vars
  /\ [][broken_end = 1 => broken_end' = 1]_vars
  /\ [][(pc = "loop" /\ chunk < to_value) => pc' = "header"]_vars
  /\ [](pc = "done" => (result[1].brokenEnd = broken_end /\ NRec = chunk))

\* C6 witness: a scan that returned two records, the first of a frame with
\* a wrong data checksum and the second of a well-formed frame, with
\* brokenEnd true.
C6_Witness ==
  /\ pc = "done" /\ NRec = 2
  /\ Frames[1].var = "badck" /\ WellFormed(Frames[2])
  /\ result[1].brokenEnd = 1

\* C7: a stream of K well-formed frames with correct checksums and no
\* leading bytes, scanned whole (to = K), yields K records with strictly
\* increasing offsets, consumes the sum of (header size + payload length)
\* bytes, and has brokenEnd false.
C7_WellFormedStreamClean ==
  (Scanning /\ Ended /\ Skipped = 0 /\ WholeStream /\ to = Len(Frames)
     /\ \A i \in 1..Len(Frames) : WellFormed(Frames[i]))
  => /\ pc = "done"
     /\ NRec = Len(Frames)
     /\ \A i \in 1..(NRec - 1) : result[1].index[i] < result[1].index[i + 1]
     /\ pos = FramesLen(Frames)
     /\ result[1].brokenEnd = 0

\* C8: in every List returned, each record's length is its header's
\* data-size field, the first offset is the number of bytes skipped before
\* the first sync byte plus the first header's size, and for consecutive
\* records offset[i+1] = offset[i] + length[i] + header_size[i+1].
C8_OffsetsChain ==
  pc = "done" =>
    /\ NRec <= Len(Frames)
    /\ NRec >= 1 => result[1].index[1] = Skipped + Frames[1].hs
    /\ \A i \in 1..NRec : result[1].length[i] = FLen(Frames[i])
    /\ \A i \in 1..(NRec - 1) :
         result[1].index[i + 1] = result[1].index[i] + result[1].length[i] + Frames[i + 1].hs

\* C8 witness: a List of two records of a stream with leading bytes whose
\* two headers differ in size.
C8_Witness ==
  /\ pc = "done" /\ NRec = 2
  /\ Skipped > 0
  /\ Frames[1].hs # Frames[2].hs

\* a well-formed frame whose payload length fits 16 bits
Plain(f) == WellFormed(f) /\ FLen(f) < UShortMod

\* C9: M bytes, none of them SYNC, put before a well-formed stream of K
\* frames leave the K records as they are without the bytes (the same
\* lengths and ids, brokenEnd false), but for the offsets, each M more: the
\* first is M plus the first header's size.
C9_PrefixShiftsOffsets ==
  (Scanning /\ Ended /\ LeadNoSync(gen.frames) = 0 /\ WholeStream
     /\ to = Len(Frames) /\ \A i \in 1..Len(Frames) : Plain(Frames[i]))
  => /\ pc = "done"
     /\ NRec = Len(Frames)
     /\ result[1].index[1] = gen.prefix + Frames[1].hs
     /\ \A i \in 1..NRec :
          /\ result[1].index[i] = gen.prefix + FramesLen(SubSeq(Frames, 1, i - 1)) + Frames[i].hs
          /\ result[1].length[i] = FLen(Frames[i])
          /\ result[1].id[i] = Frames[i].id
     /\ result[1].brokenEnd = 0

\* C9 witness: the scan of two well-formed frames behind two leading bytes
\* has returned.
C9_Witness ==
  /\ Scanning /\ pc = "done" /\ LeadNoSync(gen.frames) = 0 /\ WholeStream
  /\ gen.prefix = 2 /\ Len(Frames) = 2 /\ to = 2
  /\ \A i \in 1..Len(Frames) : Plain(Frames[i])
  /\ NRec = 2

\* C10: with exactly one payload byte of one frame of a well-formed stream
\* of K frames changed, the scan (to = K) returns brokenEnd true and the K
\* records of the unchanged stream.
C10_CorruptByteFlagged ==
  (Scanning /\ Ended /\ WholeStream /\ to = Len(Frames)
     /\ \E j \in 1..Len(Frames) :
          /\ Frames[j].var = "corrupt"
          /\ \A i \in 1..Len(Frames) : i # j => WellFormed(Frames[i]))
  => (ReturnsFirst(Len(Frames)) /\ result[1].brokenEnd = 1)

\* no byte of the file is SYNC
NoSyncByte == \A i \in 1..Len(file) : file[i].b # SYNC

\* the call is in, or past, the loop that decodes headers
InLoop == pc \in {"loop", "header", "payload", "check", "return", "done"}

\* C11: a scan (the file opened, the arguments accepted) of a stream with
\* no SYNC byte, the empty stream included, never enters the loop that
\* decodes headers and returns no List: when it ends, it has ended in the
\* ::Rf_error of the sync locator, having read the whole stream.
C11_NoSyncIsFatal ==
  (Scanning /\ NoSyncByte) =>
    /\ ~InLoop
    /\ result = <<>>
    /\ chunk = 0
    /\ Ended => /\ pc = "error"
                /\ err = "this file does not contain a single 0x"
                /\ pos = BLen(file)

\* C11 witness: the scan of a stream of some bytes, none of them SYNC, has
\* ended in the error of the sync locator.
C11_Witness ==
  /\ Scanning /\ NoSyncByte /\ file # <<>>
  /\ pc = "error" /\ err = "this file does not contain a single 0x"

\* the scan, if not stopped by its limit, comes to a frame that is not
\* complete: frame NComplete + 1
MeetsIncomplete == NComplete < Len(Frames) /\ to > NComplete

\* that frame's header-size byte is neither 10 nor 12
BadHeaderSize ==
  /\ MeetsIncomplete
  /\ Frames[NComplete + 1].var = "badhs"
  /\ FHeaderSizeByte(Frames[NComplete + 1]) \notin {10, 12}

\* the stream ends inside that frame's header, after one byte of it at least
CutHeader ==
  /\ MeetsIncomplete
  /\ NComplete + 1 = Len(Frames)
  /\ gen.keep >= 1
  /\ gen.keep < Frames[NComplete + 1].hs

\* C12: a scan that comes to a frame whose header-size byte is neither 10
\* nor 12, or to a header that the end of the stream cuts short, returns
\* no List at all: it ends in an ::Rf_error, whatever records the earlier
\* frames gave.
C12_HeaderErrorAborts ==
  (Scanning /\ (BadHeaderSize \/ CutHeader)) =>
    /\ pc \notin {"return", "done"}
    /\ result = <<>>
    /\ chunk <= NComplete
    /\ Ended => (pc = "error" /\ chunk = NComplete)

\* C12 witness: a scan that had one record when the end of the stream cut
\* the second header short has ended in an error.
C12_Witness ==
  /\ Scanning /\ CutHeader
  /\ pc = "error" /\ chunk = 1 /\ Len(index_buf) = 1

\* the frame of the full-width decoding is through: its record is made, or
\* the read of its payload ended the loop
WideOver == wide.pc \in {"break", "end"}

\* C13: for a 12-byte header whose 4-byte field holds a value over 65535,
\* whatever its four bytes, header.data_size is that value, exactly that
\* many payload bytes are read, and the frame's record is made with that
\* value as its length.
C13_DataSizeExact ==
  (WideOver /\ Exact(wide.bytes4)[2] > 0) =>
    /\ wide.data_size = Exact(wide.bytes4)
    /\ wide.bytes_read = Exact(wide.bytes4)
    /\ wide.pc = "end"
    /\ wide.length >= 0
    /\ wide.length % UShortMod = Exact(wide.bytes4)[1]
    /\ wide.length \div UShortMod = Exact(wide.bytes4)[2]

\* C14: when the call has ended, by the return of the List or by any
\* ::Rf_error, the FILE it opened is open no more.
C14_SourceClosed == Ended => fp # "open"

\* the checksum of the format over the whole payload each frame carries
FullCs == [f \in Catalogue |-> RefCs(FPayload(f))]

\* the payload of frame number chunk has just been checked
Checked == Scanning /\ pc = "loop" /\ chunk >= 1

\* C15: the checksum compared with the data checksum of a frame whose
\* payload has an even length L, L over 65535 included, is 0xB58C plus the
\* L/2 little-endian words of the whole payload, modulo 2^16.
C15_ChecksumOverWholePayload ==
  (Checked /\ FLen(Frames[chunk]) % 2 = 0) => dbufcs = FullCs[Frames[chunk]]

\* the scan, if not stopped by its limit, comes after a complete frame to
\* a frame that does not start with SYNC
LaterNoSync ==
  /\ MeetsIncomplete
  /\ NComplete >= 1
  /\ Frames[NComplete + 1].var = "nosync"

\* the byte position at which frame i starts
StartOf(i) == Skipped + FramesLen(SubSeq(Frames, 1, i - 1))

\* C16: SYNC is looked for before the first frame only.  A scan that comes,
\* after a complete frame, to a header position whose byte is not SYNC reads
\* that one byte and ends in an ::Rf_error: it looks no further and returns
\* no List.
C16_NoResync ==
  /\ pc = "seek" => (chunk = 0 /\ index_buf = <<>>)
  /\ (Scanning /\ LaterNoSync) =>
       /\ pc \notin {"return", "done"}
       /\ result = <<>>
       /\ pos <= StartOf(NComplete + 1) + 1
       /\ Ended => /\ pc = "error"
                   /\ err = "expected header.sync to be 0xa5"
                   /\ pos = StartOf(NComplete + 1) + 1

\* C16 witness: a scan that had one record has ended in an error at a
\* second frame that does not start with SYNC.
C16_Witness ==
  /\ Scanning /\ LaterNoSync
  /\ pc = "error" /\ chunk = 1

\* C17: every scan ends, in a List returned or in an ::Rf_error.  The sync
\* locator moves one byte forward at each turn or ends; each turn of the
\* loop over frames reads a whole header (10 bytes at least) and counts one
\* more record, or ends the scan.
C17_Terminates ==
  /\ <>Ended
  /\ [][pc = "seek" => (pc' \in {"loop", "error"} \/ pos' = pos + 1)]_vars
  /\ [][pc = "loop" => (pc' = "return" \/ (pc' = "header" /\ chunk < to_value))]_vars
  /\ [][pc = "header" => (pc' = "error" \/ (pc' = "payload" /\ pos' >= pos + 10))]_vars
  /\ [][pc = "payload" => (pc' = "return" \/ (pc' = "check" /\ pos' >= pos))]_vars
  /\ [][pc = "check" => (pc' = "loop" /\ chunk' = chunk + 1)]_vars
  /\ [][pc = "return" => pc' = "done"]_vars

\* C17 witness: a scan has ended after two turns of its loop.
C17_Witness == pc = "done" /\ chunk = 2 /\ to = 2

\* the List returned, or the ::Rf_error, as the end of a scan
Returned(r) == [pc |-> "done", err |-> "", result |-> <<r>>]

Failed(msg) == [pc |-> "error", err |-> msg, result |-> <<>>]

\* The ends the loop over frames can come to from the state s, for the
\* stream f and the limit t alone: the statements of lines 194-287 with
\* no other argument of the call in them.
RECURSIVE LoopEnds(_, _, _)
LoopEnds(f, t, s) ==
  IF ~LoopCond(s.chunk, t)
    THEN {Returned(MakeResult(s.chunk, s.index_buf, s.length_buf, s.id_buf,
                              s.broken_end))}
  ELSE LET r == ReadHeader(f, s.pos)
       IN IF ~r.ok THEN {Failed(r.err)}
          ELSE LET h == r.header
                   ci == PayloadOffset(s.cindex, h.header_size)
                   len == GrownDbuflen(h.data_size, s.dbuflen)
                   got == Fread(f, s.pos + r.consumed, h.data_size)
                   n == BLen(got)
                   buf == got \o Drop(Realloc(s.dbuf, s.dbuflen, len), n)
               IN IF ShortRead(n, h.data_size)
                    THEN {Returned(MakeResult(s.chunk, s.index_buf, s.length_buf,
                                              s.id_buf, s.broken_end))}
                    ELSE UNION { LoopEnds(f, t,
                           [pos |-> s.pos + r.consumed + n,
                            chunk |-> NextChunk(s.chunk),
                            cindex |-> ci + h.data_size,
                            dbuflen |-> len,
                            dbuf |-> buf,
                            index_buf |-> Store(s.index_buf, s.chunk, ci),
                            length_buf |-> Store(s.length_buf, s.chunk, h.data_size),
                            id_buf |-> Store(s.id_buf, s.chunk, h.id),
                            broken_end |->
                              NextBrokenEnd(s.broken_end,
                                            cs(buf, len, CsSize(h.data_size), oob),
                                            h.data_checksum)]) :
                           oob \in OobValues(CsSize(h.data_size), len) }

\* The ends of the scan of the stream f with the limit t, from the search
\* for the first SYNC at position p on, ci bytes skipped so far.
RECURSIVE ScanEnds(_, _, _, _)
ScanEnds(f, t, p, ci) ==
  LET c == Getc(f, p)
  IN IF c = EOF THEN {Failed("this file does not contain a single 0x")}
     ELSE IF IsSync(c)
       THEN LoopEnds(f, t, [pos |-> p, chunk |-> 0, cindex |-> ci,
                            dbuflen |-> InitDbuflen,
                            dbuf |-> <<Run(0, InitDbuflen)>>,
                            index_buf |-> <<>>, length_buf |-> <<>>,
                            id_buf |-> <<>>, broken_end |-> 0])
     ELSE ScanEnds(f, t, p + 1, SkipByte(ci))

\* the arguments pass the checks of the code as it is written
NonNegative == canOpen /\ from >= 0 /\ to >= 0 /\ by >= 0

C19_BufferHoldsPayload ==
  /\ [](pc = "payload" => (dbuflen >= header.data_size /\ BLen(dbuf) = dbuflen))
  /\ [][dbuflen' >= dbuflen /\ BLen(dbuf') >= BLen(dbuf)]_vars

\* C19 witness: the payload of a second, small frame is about to be read
\* into the buffer that the first frame's 65538 bytes made larger.
C19_Witness ==
  /\ pc = "payload" /\ chunk = 1
  /\ dbuflen > InitDbuflen
  /\ header.data_size < InitDbuflen
  /\ length_buf[1] = dbuflen

\* what cs returns for the payload of the frame f in a buffer that holds
\* nothing else: the payload, and a zero byte after it
OwnCs(f) ==
  cs(FPayload(f) \o <<Run(0, 1)>>, FLen(f) + 1, CsSize(FLen(f)), 0)

\* C20: the checksum computed for a frame, of even or of odd length, is
\* that of the frame's own payload bytes, whatever the frames before it
\* left in dbuf; so is the comparison with the checksum the frame declares.
C20_ChecksumOfOwnBytes ==
  Checked =>
    /\ dbufcs = OwnCs(Frames[chunk])
    /\ ChecksumMismatch(dbufcs, header.data_checksum)
         = ChecksumMismatch(OwnCs(Frames[chunk]), header.data_checksum)

====
